---- MODULE Spec2Model ----
(***************************************************************************)
(* A model of bratus (src/src/main.rs): a supervisor that spawns           *)
(* `bspc subscribe`, reads its report lines, and prints one formatted      *)
(* status line per changed report.                                         *)
(*                                                                         *)
(* Strings are modelled as Rust stores them: sequences of UTF-8 bytes.     *)
(* An ASCII byte is written as the one-character string of its character;  *)
(* the two bytes of the non-ASCII character U+00E9 are "xC3" and "xA9".    *)
(***************************************************************************)
EXTENDS Naturals, Integers, Sequences, FiniteSets, TLC

\* ------------------------------------------------------------------ bounds
\* longest line (in characters) enumerated over the whole alphabet
MaxLineChars == 2
\* most ':'-separated segments of a structured line
MaxSegs == 2
\* most (marker, label) pairs of a line built for the round trip
MaxPairs == 2
\* the sink operations of one print_bspwm call that may be the failing one
MaxFailAt == 3

\* ------------------------------------------------------------ UTF-8 bytes
ContinuationBytes == {"xA9", "x83"}
LeadBytes == {"xC3"}
EAcute == <<"xC3", "xA9">>

\* str::is_char_boundary: index 0 and len are boundaries, an index past the
\* end is not, any other index is one unless a continuation byte sits there
IsCharBoundary(s, i) ==
    \/ i = 0
    \/ i = Len(s)
    \/ (i < Len(s) /\ s[i + 1] \notin ContinuationBytes)

\* `b as char` for a byte b: the character whose code point is the byte value
\* (an ASCII byte is itself; 0xC3 becomes U+00C3, never the character the
\* byte was the first byte of)
ByteAsChar(b) ==
    CASE b = "xC3" -> "U+00C3"
      [] b = "xA9" -> "U+00A9"
      [] b = "x83" -> "U+0083"
      [] OTHER -> b

\* &s[1..]: panics unless byte offset 1 is a character boundary of s
SliceFrom1(s) ==
    IF IsCharBoundary(s, 1)
    THEN [panic |-> FALSE, str |-> SubSeq(s, 2, Len(s))]
    ELSE [panic |-> TRUE, str |-> <<>>]

\* the positions of ':' in s
ColonAt(s) == {i \in 1..Len(s) : s[i] = ":"}

\* str::split(':'): the pieces between separators, in order; a string
\* without a separator (the empty string too) is one piece
RECURSIVE SplitColon(_)
SplitColon(s) ==
    IF ColonAt(s) = {}
    THEN <<s>>
    ELSE LET i == CHOOSE k \in ColonAt(s) : \A j \in ColonAt(s) : k <= j
         IN  <<SubSeq(s, 1, i - 1)>> \o SplitColon(SubSeq(s, i + 1, Len(s)))

\* print_bspwm::split: Some((first byte as char, rest)) when the segment is
\* longer than one byte, None otherwise; the slice panics when the first
\* character is longer than one byte
split(s) ==
    IF Len(s) > 1
    THEN IF SliceFrom1(s).panic
         THEN [kind |-> "panic", start |-> "", name |-> <<>>]
         ELSE [kind |-> "some", start |-> ByteAsChar(s[1]), name |-> SliceFrom1(s).str]
    ELSE [kind |-> "none", start |-> "", name |-> <<>>]

\* ------------------------------------------------------------------ colors
\* Color(Option<String>)
NoColor == [some |-> FALSE, hex |-> <<>>]
SomeColor(h) == [some |-> TRUE, hex |-> h]

HexDigits == {"0", "1", "2", "3", "4", "5", "6", "7", "8", "9",
              "a", "b", "c", "d", "e", "f", "A", "B", "C", "D", "E", "F"}

\* Color::from_str without the length test
ColorFromStr_any_length(s) ==
    IF s = <<>>
    THEN [ok |-> TRUE, color |-> NoColor]
    ELSE IF /\ s[1] = "#"
            /\ \A i \in 2..Len(s) : s[i] \in HexDigits
         THEN [ok |-> TRUE, color |-> SomeColor(s)]
         ELSE [ok |-> FALSE, color |-> NoColor]

\* Color::from_str: "" is no color, '#' and six hex digits (7 bytes) is that
\* color, anything else is an error
ColorFromStr(s) ==
    IF s = <<>>
    THEN [ok |-> TRUE, color |-> NoColor]
    ELSE IF /\ Len(s) = 7
            /\ s[1] = "#"
            /\ \A i \in 2..Len(s) : s[i] \in HexDigits
         THEN [ok |-> TRUE, color |-> SomeColor(s)]
         ELSE [ok |-> FALSE, color |-> NoColor]

\* Display for DrawColor that emits the markup even without a color
Draw_always_markup(color, name) ==
    <<"%", "{", "F">> \o color.hex \o <<"}">> \o name \o <<"%", "{", "F", "-", "}">>

\* Display for DrawColor: %{F<hex>}<label>%{F-} with a color, the label alone
\* without one
Draw(color, name) ==
    IF color.some
    THEN <<"%", "{", "F">> \o color.hex \o <<"}">> \o name \o <<"%", "{", "F", "-", "}">>
    ELSE name

\* the markers print_bspwm's match has an arm for
Markers == {"m", "M", "f", "F", "o", "O", "u", "U", "L", "T", "G"}

\* the match of print_bspwm with the window-state arm padded like a desktop
Fragment_state_padded(c, start, name) ==
    CASE start = "m" -> <<" ">> \o Draw(c.monitor, name) \o <<" ", " ">>
      [] start = "M" -> <<"-">> \o Draw(c.monitor, name) \o <<"-", " ">>
      [] start = "f" -> <<" ">> \o Draw(c.free, name) \o <<" ", " ">>
      [] start = "F" -> <<"-">> \o Draw(c.free, name) \o <<"-", " ">>
      [] start = "o" -> <<" ">> \o Draw(c.occupied, name) \o <<" ", " ">>
      [] start = "O" -> <<"-">> \o Draw(c.occupied, name) \o <<"-", " ">>
      [] start = "u" -> <<" ">> \o Draw(c.urgent, name) \o <<" ", " ">>
      [] start = "U" -> <<"-">> \o Draw(c.urgent, name) \o <<"-", " ">>
      [] start \in {"L", "T", "G"} -> <<" ">> \o Draw(c.state, name) \o <<" ", " ">>
      [] OTHER -> <<>>

\* the match of print_bspwm: the bytes one token adds to the sink
Fragment(c, start, name) ==
    CASE start = "m" -> <<" ">> \o Draw(c.monitor, name) \o <<" ", " ">>
      [] start = "M" -> <<"-">> \o Draw(c.monitor, name) \o <<"-", " ">>
      [] start = "f" -> <<" ">> \o Draw(c.free, name) \o <<" ", " ">>
      [] start = "F" -> <<"-">> \o Draw(c.free, name) \o <<"-", " ">>
      [] start = "o" -> <<" ">> \o Draw(c.occupied, name) \o <<" ", " ">>
      [] start = "O" -> <<"-">> \o Draw(c.occupied, name) \o <<"-", " ">>
      [] start = "u" -> <<" ">> \o Draw(c.urgent, name) \o <<" ", " ">>
      [] start = "U" -> <<"-">> \o Draw(c.urgent, name) \o <<"-", " ">>
      [] start \in {"L", "T", "G"} -> <<" ">> \o Draw(c.state, name)
      [] OTHER -> <<>>

\* the for loop of print_bspwm with the `?` after write! left out: a failed
\* write is remembered but the loop goes on writing
RECURSIVE WriteTokens_ignores_error(_, _, _, _, _)
WriteTokens_ignores_error(c, segs, acc, n, failAt) ==
    IF segs = <<>>
    THEN [st |-> IF failAt \in 1..n THEN "ioerr" ELSE "ok", out |-> acc,
          n |-> IF failAt \in 1..n THEN failAt - 1 ELSE n]
    ELSE LET t == split(Head(segs))
         IN  CASE t.kind = "panic" -> [st |-> "panic", out |-> acc, n |-> n]
               [] t.kind = "none" \/ t.start \notin Markers ->
                     WriteTokens_ignores_error(c, Tail(segs), acc, n, failAt)
               [] OTHER ->
                     WriteTokens_ignores_error(c, Tail(segs),
                         acc \o Fragment(c, t.start, t.name), n + 1, failAt)

\* the for loop of print_bspwm over the lazily filtered segments: each token's
\* fragment is written before the next segment is looked at, so a panic in
\* split leaves the earlier fragments in the sink's buffer.  n counts the
\* write! calls that succeeded; the write! numbered failAt fails (the buffer
\* is full and cannot be emptied) and `?` returns at once.  A token whose
\* marker has no arm is skipped without a write.
RECURSIVE WriteTokens(_, _, _, _, _)
WriteTokens(c, segs, acc, n, failAt) ==
    IF segs = <<>>
    THEN [st |-> "ok", out |-> acc, n |-> n]
    ELSE LET t == split(Head(segs))
         IN  CASE t.kind = "panic" -> [st |-> "panic", out |-> acc, n |-> n]
               [] t.kind = "none" \/ t.start \notin Markers ->
                     WriteTokens(c, Tail(segs), acc, n, failAt)
               [] n + 1 = failAt -> [st |-> "ioerr", out |-> acc, n |-> n]
               [] OTHER ->
                     WriteTokens(c, Tail(segs), acc \o Fragment(c, t.start, t.name),
                                 n + 1, failAt)

\* the tokens bspwm[1..].split(':').filter_map(split) yields when all of it
\* is consumed: the (marker, label) pairs, or a panic
RECURSIVE CollectTokens(_, _)
CollectTokens(segs, acc) ==
    IF segs = <<>>
    THEN [st |-> "ok", toks |-> acc]
    ELSE LET t == split(Head(segs))
         IN  CASE t.kind = "panic" -> [st |-> "panic", toks |-> acc]
               [] t.kind = "none" -> CollectTokens(Tail(segs), acc)
               [] OTHER -> CollectTokens(Tail(segs), Append(acc, <<t.start, t.name>>))

\* bspwm[1..]: a panic on the empty line (offset 1 is past the end) and on a
\* line whose first character is longer than one byte
Tokenize(bspwm) ==
    IF SliceFrom1(bspwm).panic
    THEN [st |-> "panic", toks |-> <<>>]
    ELSE CollectTokens(SplitColon(SliceFrom1(bspwm).str), <<>>)

\* print_bspwm up to the flush: what it leaves in the buffered writer, how
\* many write! calls succeeded, and whether it got as far as the newline
PrintBuffered(c, bspwm, failAt) ==
    IF SliceFrom1(bspwm).panic
    THEN [st |-> "panic", out |-> <<>>, n |-> 0]
    ELSE LET w == WriteTokens(c, SplitColon(SliceFrom1(bspwm).str), <<>>, 0, failAt)
         IN  IF w.st = "ok" THEN [st |-> "ok", out |-> w.out \o <<"\n">>, n |-> w.n] ELSE w

\* print_bspwm without the final out.flush()
print_bspwm_without_flush(c, bspwm, failAt) ==
    LET p == PrintBuffered(c, bspwm, failAt)
    IN  [st |-> p.st, out |-> p.out, flushed |-> <<>>, pending |-> p.out, nwrites |-> p.n]

\* print_bspwm(c, out, bspwm) on a sink whose operation numbered failAt fails
\* (0: none does): the operations are the write! of each drawn token, in
\* order, and then writeln! with the flush.  st is "ok", "ioerr" or "panic";
\* out is what print_bspwm put in the buffer, flushed is what reached
\* standard output before print_bspwm returned, pending is what the buffered
\* writer still holds then, nwrites is the number of write! calls that
\* succeeded
print_bspwm(c, bspwm, failAt) ==
    LET p == PrintBuffered(c, bspwm, failAt)
    IN  CASE p.st = "panic" ->
               [st |-> "panic", out |-> p.out, flushed |-> <<>>, pending |-> p.out, nwrites |-> p.n]
          [] p.st = "ioerr" \/ failAt = p.n + 1 ->
               [st |-> "ioerr", out |-> p.out, flushed |-> <<>>, pending |-> p.out, nwrites |-> p.n]
          [] OTHER ->
               [st |-> "ok", out |-> p.out, flushed |-> p.out, pending |-> <<>>, nwrites |-> p.n]

\* String::pop: removes the last character, all of its bytes
RECURSIVE PopChar(_)
PopChar(s) ==
    IF s = <<>>
    THEN s
    ELSE IF s[Len(s)] \in ContinuationBytes
         THEN PopChar(SubSeq(s, 1, Len(s) - 1))
         ELSE SubSeq(s, 1, Len(s) - 1)

\* ------------------------------------------------------------------ inputs
\* the characters report lines are enumerated over, as their UTF-8 bytes
StreamChars == {<<"m">>, <<":">>, EAcute}

RECURSIVE StringsOfChars(_)
StringsOfChars(n) ==
    IF n = 0 THEN {<<>>}
    ELSE {c \o s : c \in StreamChars, s \in StringsOfChars(n - 1)}

ShortLines == UNION {StringsOfChars(k) : k \in 0..MaxLineChars}

\* the scenario line of the report format and two lines with tokens
ScenarioLine == <<"O", "o", "1", "o", "2", ":", "O", "3">>
StreamLines == ShortLines \cup {<<"W", "m", "1">>, <<"W", "O", "1", ":", "L", "T">>}

\* the segments structured lines are joined from: empty, one byte, one token
\* per layout, an unknown marker, a non-ASCII label, a non-ASCII first character
Segments ==
    {<<>>, <<"m">>, <<"m", "1">>, <<"O", "2">>, <<"L", "3">>, <<"x", "4">>,
     <<"f", "xC3", "xA9">>, <<"xC3", "xA9", "5">>}

RECURSIVE JoinColon(_)
JoinColon(segs) ==
    IF segs = <<>> THEN <<>>
    ELSE IF Len(segs) = 1 THEN segs[1]
    ELSE segs[1] \o <<":">> \o JoinColon(Tail(segs))

SegSeqs == UNION {[1..n -> Segments] : n \in 1..MaxSegs}
MarkerLines == {<<"W", k, "7">> : k \in Markers \cup {"W", "1"}}
Lines ==
    ShortLines \cup {<<"W">> \o JoinColon(q) : q \in SegSeqs}
               \cup MarkerLines \cup {ScenarioLine}

\* --color-* values: absent (""), well-formed, and malformed in each way
Hex1 == <<"#", "1", "1", "a", "A", "f", "F">>
Hex2 == <<"#", "2", "2", "2", "2", "2", "2">>
Hex3 == <<"#", "3", "3", "3", "3", "3", "3">>
Hex4 == <<"#", "4", "4", "4", "4", "4", "4">>
Hex5 == <<"#", "5", "5", "5", "5", "5", "5">>
BadHex == {<<"#", "1", "2", "3", "4", "5">>, <<"1", "2", "3", "4", "5", "6", "7">>,
           <<"#", "1", "2", "3", "4", "5", "g">>, <<"#", "xC3", "xA9", "1", "2", "3", "4">>,
           <<"#", "1", "2", "3", "4", "5", "6", "7">>}

Args(f, m, o, u, s) == [free |-> f, monitor |-> m, occupied |-> o, urgent |-> u, state |-> s]
GoodArgs == {Args(<<>>, <<>>, <<>>, <<>>, <<>>), Args(Hex1, Hex2, Hex3, Hex4, Hex5),
             Args(<<>>, Hex2, <<>>, Hex4, <<>>)}
BadArgs == {Args(b, <<>>, <<>>, <<>>, <<>>) : b \in BadHex} \cup {Args(Hex1, Hex2, Hex3, Hex4, <<"#">>)}
ArgVectors == GoodArgs \cup BadArgs

Categories == {"free", "monitor", "occupied", "urgent", "state"}

\* Colors::from_args: every flag value goes through Color::from_str; one
\* failure fails the whole parse
ArgsOk(a) == \A k \in Categories : ColorFromStr(a[k]).ok
ColorsOf(a) == [k \in Categories |-> ColorFromStr(a[k]).color]
NoColors == [k \in Categories |-> NoColor]
\* every flag at its default_value = ""
NoArgs == Args(<<>>, <<>>, <<>>, <<>>, <<>>)

\* ------------------------------------------------------------------- state
VARIABLES
    pc,            \* where the main thread is
    argv,          \* the --color-* values the process was started with
    colors,        \* Colors, once parsed
    buf,           \* run's buf: the line of the previous iteration
    bspwm,         \* the line most recently read (print_bspwm's argument)
    res,           \* what print_bspwm did with it
    flushed,       \* bytes that reached standard output in this iteration
    child,         \* "none", "running", "zombie" (exited, never waited on)
    childOut,      \* the child's end of the pipe: "none", "open", "closed"
    childSignaled, \* kill(child, SIGTERM) succeeded
    handler,       \* the signal thread: "none", "idle", "kill", "exit"
    sigPending,    \* a SIGTERM/SIGINT arrived and the thread has not taken it
    kills,         \* calls of kill made by the handler
    exitCause,     \* "none" while running, then why the process ended
    exitCode,      \* its exit code; -1 while running or when killed by a signal
    stderr,        \* the diagnostics written, one entry per message
    fed,           \* the content of the line the child sent last
    started,       \* a line has been read
    runLen,        \* length of the current run of identical lines (capped at 2)
    runOut,        \* output lines produced for that run
    frame,         \* round trip: the frame marker
    pairs,         \* round trip: the (marker, label) pairs
    toks           \* round trip: what the tokenizer returned

vars == <<pc, argv, colors, buf, bspwm, res, flushed, child, childOut, childSignaled,
          handler, sigPending, kills, exitCause, exitCode, stderr,
          fed, started, runLen, runOut, frame, pairs, toks>>

procVars == <<child, childOut, childSignaled, handler, sigPending, kills>>
exitVars == <<exitCause, exitCode, stderr>>
runVars == <<fed, started, runLen, runOut>>
tokVars == <<frame, pairs, toks>>

NotCalled == [st |-> "none", out |-> <<>>, flushed |-> <<>>, pending |-> <<>>, nwrites |-> 0]
Skipped == [st |-> "skip", out |-> <<>>, flushed |-> <<>>, pending |-> <<>>, nwrites |-> 0]
NoToks == [st |-> "none", toks |-> <<>>]

Running == exitCause = "none"

\* ------------------------------------------------------------ main thread
\* Init: the process has started and nothing of run has executed
Init ==
    /\ pc = "args"
    /\ argv = NoArgs
    /\ colors = NoColors
    /\ buf = <<>>
    /\ bspwm = <<>>
    /\ res = NotCalled
    /\ flushed = <<>>
    /\ child = "none"
    /\ childOut = "none"
    /\ childSignaled = FALSE
    /\ handler = "none"
    /\ sigPending = FALSE
    /\ kills = 0
    /\ exitCause = "none"
    /\ exitCode = -1
    /\ stderr = <<>>
    /\ fed = <<>>
    /\ started = FALSE
    /\ runLen = 0
    /\ runOut = 0
    /\ frame = <<>>
    /\ pairs = <<>>
    /\ toks = NoToks

\* the process ends with this code, having written this diagnostic (if any)
Exit(code, cause, diag) ==
    /\ exitCause' = cause
    /\ exitCode' = code
    /\ stderr' = IF diag = "" THEN stderr ELSE Append(stderr, diag)
    /\ pc' = "exited"

\* Colors::from_args that takes a malformed value for the default
ParseArgs_unchecked(a) ==
    /\ Running /\ pc = "args"
    /\ argv' = a
    /\ colors' = ColorsOf(a)
    /\ pc' = "spawn"
    /\ UNCHANGED <<exitVars, buf, bspwm, res, flushed, procVars, runVars, tokVars>>

\* Colors::from_args (line 54): a malformed value makes the argument parser
\* print its usage error and exit with code 1, before anything is spawned
ParseArgs(a) ==
    /\ Running /\ pc = "args"
    /\ argv' = a
    /\ IF ArgsOk(a)
       THEN /\ colors' = ColorsOf(a)
            /\ pc' = "spawn"
            /\ UNCHANGED exitVars
       ELSE /\ Exit(1, "args", "usage")
            /\ UNCHANGED colors
    /\ UNCHANGED <<buf, bspwm, res, flushed, procVars, runVars, tokVars>>

\* command_stdout (line 55): spawn the child with a piped stdout.  A failed
\* spawn, and a child without a stdout handle ("No stdout of process": the
\* branch of lines 116-119, taken after the child was spawned), return an
\* error through main, which prints it and exits with code 1.
SpawnChild(outcome) ==
    /\ Running /\ pc = "spawn"
    /\ CASE outcome = "ok" ->
              /\ child' = "running"
              /\ childOut' = "open"
              /\ pc' = "handler"
              /\ UNCHANGED exitVars
         [] outcome = "nopipe" ->
              /\ child' = "running"
              /\ childOut' = "none"
              /\ Exit(1, "nopipe", "io")
         [] OTHER ->
              /\ Exit(1, "spawn", "io")
              /\ UNCHANGED <<child, childOut>>
    /\ UNCHANGED <<colors, argv, buf, bspwm, res, flushed, childSignaled, handler,
                   sigPending, kills, runVars, tokVars>>

\* simple_signal::set_handler (lines 59-64): from here on SIGTERM and SIGINT
\* wake a thread that runs the closure
InstallHandler ==
    /\ Running /\ pc = "handler"
    /\ handler' = "idle"
    /\ pc' = "loop"
    /\ UNCHANGED <<colors, argv, buf, bspwm, res, flushed, child, childOut, childSignaled,
                   sigPending, kills, exitVars, runVars, tokVars>>

\* one iteration of the loop (lines 67-76) on a line the child sent: content
\* `line`, ended by a newline iff nl (a line without one is the last before
\* end-of-file).  failAt: the sink operation that fails (0: none).  dropFlush:
\* when run is left by an error or a panic, dropping the BufWriter gets what
\* it still holds out to standard output.
ReadLine(line, nl, failAt, dropFlush) ==
    /\ Running /\ pc = "loop" /\ childOut = "open"
    /\ nl \/ line # <<>>
    /\ LET raw == IF nl THEN line \o <<"\n">> ELSE line
           new_buf == PopChar(raw)
           r == IF new_buf # buf THEN print_bspwm(colors, new_buf, failAt) ELSE Skipped
           same == started /\ nl /\ line = fed
       IN  /\ bspwm' = new_buf
           /\ res' = r
           /\ fed' = line
           /\ started' = TRUE
           /\ runLen' = IF same THEN 2 ELSE 1
           /\ runOut' = (IF same THEN runOut ELSE 0) + (IF r.st = "ok" THEN 1 ELSE 0)
           /\ CASE r.st = "ioerr" ->
                     /\ Exit(1, "io", "io")
                     /\ flushed' = IF dropFlush THEN r.out ELSE <<>>
                     /\ UNCHANGED buf
                [] r.st = "panic" ->
                     /\ Exit(101, "panic", "panic")
                     /\ flushed' = IF dropFlush THEN r.out ELSE <<>>
                     /\ UNCHANGED buf
                [] OTHER ->
                     /\ buf' = new_buf
                     /\ flushed' = r.flushed
                     /\ UNCHANGED <<pc, exitVars>>
    /\ childOut' = IF nl THEN childOut ELSE "closed"
    /\ UNCHANGED <<colors, argv, child, childSignaled, handler, sigPending, kills, tokVars>>

\* read_line returns Ok(0) (line 68): the child's end of the pipe is closed;
\* the loop breaks, run returns Ok(()) and main returns: exit code 0
ReadEof ==
    /\ Running /\ pc = "loop" /\ childOut = "closed"
    /\ Exit(0, "eof", "")
    /\ UNCHANGED <<colors, argv, buf, bspwm, res, flushed, procVars, runVars, tokVars>>

\* read_line returns an error (line 77), e.g. bytes that are not UTF-8: run
\* returns it, main prints it and exits with code 1
ReadError ==
    /\ Running /\ pc = "loop" /\ childOut = "open"
    /\ Exit(1, "io", "io")
    /\ UNCHANGED <<colors, argv, buf, bspwm, res, flushed, procVars, runVars, tokVars>>

\* ---------------------------------------------------------- signal thread
\* SIGTERM or SIGINT reaches the supervising process.  Before set_handler the
\* default disposition ends the process at once; after it the signal is left
\* pending for the handler thread.
Signal ==
    /\ Running
    /\ IF handler = "none"
       THEN /\ exitCause' = "killed"
            /\ pc' = "exited"
            /\ UNCHANGED <<sigPending, exitCode, stderr>>
       ELSE /\ sigPending' = TRUE
            /\ UNCHANGED <<pc, exitVars>>
    /\ UNCHANGED <<colors, argv, buf, bspwm, res, flushed, child, childOut, childSignaled,
                   handler, kills, runVars, tokVars>>

\* the closure is entered (it is about to call kill)
HandlerWake ==
    /\ Running /\ handler = "idle" /\ sigPending
    /\ handler' = "kill"
    /\ sigPending' = FALSE
    /\ UNCHANGED <<pc, colors, argv, buf, bspwm, res, flushed, child, childOut, childSignaled,
                   kills, exitVars, runVars, tokVars>>

\* the closure with a failed kill ending the process with code 1
HandlerKill_fatal(ok) ==
    /\ Running /\ handler = "kill"
    /\ kills' = kills + 1
    /\ childSignaled' = (childSignaled \/ ok)
    /\ IF ok
       THEN /\ handler' = "exit"
            /\ UNCHANGED <<pc, exitVars>>
       ELSE /\ handler' = "exit"
            /\ exitCause' = "signal"
            /\ exitCode' = 1
            /\ stderr' = Append(stderr, "kill")
            /\ pc' = "exited"
    /\ UNCHANGED <<colors, argv, buf, bspwm, res, flushed, child, childOut,
                   sigPending, runVars, tokVars>>

\* kill(child.id(), SIGTERM) (lines 60-62); an error is printed and ignored
HandlerKill(ok) ==
    /\ Running /\ handler = "kill"
    /\ kills' = kills + 1
    /\ childSignaled' = (childSignaled \/ ok)
    /\ stderr' = IF ok THEN stderr ELSE Append(stderr, "kill")
    /\ handler' = "exit"
    /\ UNCHANGED <<pc, colors, argv, buf, bspwm, res, flushed, child, childOut,
                   sigPending, exitCause, exitCode, runVars, tokVars>>

\* the closure with the kill left out: exit(0) straight away
HandlerExit_without_kill ==
    /\ Running /\ handler \in {"kill", "exit"}
    /\ exitCause' = "signal"
    /\ exitCode' = 0
    /\ pc' = "exited"
    /\ UNCHANGED <<colors, argv, buf, bspwm, res, flushed, procVars, stderr, runVars, tokVars>>

\* std::process::exit(0) (line 63)
HandlerExit ==
    /\ Running /\ handler = "exit"
    /\ exitCause' = "signal"
    /\ exitCode' = 0
    /\ pc' = "exited"
    /\ UNCHANGED <<colors, argv, buf, bspwm, res, flushed, procVars, stderr, runVars, tokVars>>

\* ------------------------------------------------------------------- child
\* the child ends (by itself, or from the SIGTERM it was sent); nothing in
\* the program waits on it, so it stays a zombie while the program runs
ChildExit ==
    /\ Running /\ child = "running"
    /\ child' = "zombie"
    /\ childOut' = "closed"
    /\ UNCHANGED <<pc, colors, argv, buf, bspwm, res, flushed, childSignaled, handler,
                   sigPending, kills, exitVars, runVars, tokVars>>

\* the child closes its standard output and keeps running
ChildCloseStdout ==
    /\ Running /\ child = "running" /\ childOut = "open"
    /\ childOut' = "closed"
    /\ UNCHANGED <<pc, colors, argv, buf, bspwm, res, flushed, child, childSignaled, handler,
                   sigPending, kills, exitVars, runVars, tokVars>>

Next ==
    \/ \E a \in ArgVectors : ParseArgs(a)
    \/ \E outcome \in {"ok", "fail", "nopipe"} : SpawnChild(outcome)
    \/ InstallHandler
    \/ \E line \in StreamLines, nl, dropFlush \in BOOLEAN, failAt \in 0..MaxFailAt :
          ReadLine(line, nl, failAt, dropFlush)
    \/ ReadEof
    \/ ReadError
    \/ Signal
    \/ HandlerWake
    \/ \E ok \in BOOLEAN : HandlerKill(ok)
    \/ HandlerExit
    \/ ChildExit
    \/ ChildCloseStdout

Spec == Init /\ [][Next]_vars

\* ---------------------------------------------------- print_bspwm alone
\* the flag values print_bspwm is exercised with: the three above and each
\* category colored on its own
SoloArgs ==
    {Args(Hex1, <<>>, <<>>, <<>>, <<>>), Args(<<>>, Hex1, <<>>, <<>>, <<>>),
     Args(<<>>, <<>>, Hex1, <<>>, <<>>), Args(<<>>, <<>>, <<>>, Hex1, <<>>),
     Args(<<>>, <<>>, <<>>, <<>>, Hex1)}

\* everything but the presenter's variables, as at program start
Idle ==
    /\ buf = <<>>
    /\ flushed = <<>>
    /\ child = "none"
    /\ childOut = "none"
    /\ childSignaled = FALSE
    /\ handler = "none"
    /\ sigPending = FALSE
    /\ kills = 0
    /\ exitCause = "none"
    /\ exitCode = -1
    /\ stderr = <<>>
    /\ fed = <<>>
    /\ started = FALSE
    /\ runLen = 0
    /\ runOut = 0

InitPrint ==
    /\ pc = "call"
    /\ argv \in GoodArgs \cup SoloArgs
    /\ colors = ColorsOf(argv)
    /\ bspwm \in Lines
    /\ res = NotCalled
    /\ frame = <<>>
    /\ pairs = <<>>
    /\ toks = NoToks
    /\ Idle

\* print_bspwm(&colors, &mut out, bspwm) (lines 83-108)
CallPrint(failAt) ==
    /\ pc = "call"
    /\ res' = print_bspwm(colors, bspwm, failAt)
    /\ toks' = Tokenize(bspwm)
    /\ pc' = "returned"
    /\ UNCHANGED <<colors, argv, buf, bspwm, flushed, procVars, exitVars, runVars, frame, pairs>>

NextPrint == \E failAt \in 0..MaxFailAt : CallPrint(failAt)

SpecPrint == InitPrint /\ [][NextPrint]_vars

\* ------------------------------------------------------ tokenizer alone
\* characters by name: an ASCII character is its byte, U+00E9 is two bytes
CharName(ch) == IF Len(ch) = 1 THEN ch[1] ELSE "U+00E9"
FrameChars == {<<"W">>, <<"O">>, EAcute}
PairMarkers == {<<"m">>, <<"O">>, EAcute}
PairLabels == {<<"1">>, <<"1", "o", "2">>, EAcute}
PairSeqs == UNION {[1..n -> PairMarkers \X PairLabels] : n \in 0..MaxPairs}

\* the report line of the wire format: frame marker, then marker and label of
\* each pair, the pairs joined with ':'
RECURSIVE PairSegs(_)
PairSegs(ps) ==
    IF ps = <<>> THEN <<>> ELSE <<Head(ps)[1] \o Head(ps)[2]>> \o PairSegs(Tail(ps))
WireLine(x, ps) == x \o JoinColon(PairSegs(ps))

InitTok ==
    /\ pc = "build"
    /\ frame \in FrameChars
    /\ pairs \in PairSeqs
    /\ toks = NoToks
    /\ argv = NoArgs
    /\ colors = NoColors
    /\ bspwm = <<>>
    /\ res = NotCalled
    /\ Idle

BuildLine ==
    /\ pc = "build"
    /\ bspwm' = WireLine(frame, pairs)
    /\ pc' = "tokenize"
    /\ UNCHANGED <<colors, argv, buf, res, flushed, procVars, exitVars, runVars, tokVars>>

\* bspwm[1..].split(':').filter_map(split) (line 92), consumed to the end
TokenizeLine ==
    /\ pc = "tokenize"
    /\ toks' = Tokenize(bspwm)
    /\ pc' = "tokenized"
    /\ UNCHANGED <<colors, argv, buf, bspwm, res, flushed, procVars, exitVars, runVars, frame, pairs>>

NextTok == BuildLine \/ TokenizeLine

SpecTok == InitTok /\ [][NextTok]_vars

\* ------------------------------------------------- Color::from_str alone
\* longest flag value enumerated over the alphabet below
MaxColorLen == 7
ColorChars == {"#", "a", "g"}
ColorStrings ==
    UNION {[1..n -> ColorChars] : n \in 0..MaxColorLen}
        \cup BadHex \cup {Hex1, Hex2, Hex3, Hex4, Hex5}

InitColor ==
    /\ pc = "args"
    /\ argv \in {Args(v, <<>>, <<>>, <<>>, <<>>) : v \in ColorStrings}
    /\ colors = NoColors
    /\ bspwm = <<>>
    /\ res = NotCalled
    /\ frame = <<>>
    /\ pairs = <<>>
    /\ toks = NoToks
    /\ Idle

NextColor == ParseArgs(argv)

SpecColor == InitColor /\ [][NextColor]_vars

\* ------------------------------------------------------------------ claims
\* characters, as the claims count them
CharLen(s) == Cardinality({i \in 1..Len(s) : s[i] \notin ContinuationBytes})
FirstCharBytes(s) == IF s[1] \in LeadBytes THEN 2 ELSE 1
FirstChar(s) == SubSeq(s, 1, FirstCharBytes(s))
DropFirstChar(s) == IF s = <<>> THEN s ELSE SubSeq(s, FirstCharBytes(s) + 1, Len(s))
ChildReaped == child = "reaped"

\* C1: whenever the supervising process exits while the child is still
\* running (end-of-stream, a propagated I/O error, or SIGTERM/SIGINT), the
\* child has been sent a termination signal and has been waited on.
C1_ChildSignaledAndReaped ==
    (exitCause \in {"eof", "io", "signal"} /\ child = "running")
        => (childSignaled /\ ChildReaped)

\* C2: when the process exits through the signal handler, the handler has
\* called kill on the child before, exactly once, and the exit code is 0.
C2_KillThenExitZero ==
    exitCause = "signal" => (kills = 1 /\ handler = "exit" /\ exitCode = 0)

\* C2 witness: a signal arrived while the loop was reading lines, the child
\* was sent SIGTERM, and the process then exited through the handler
C2_Witness ==
    /\ exitCause = "signal"
    /\ started
    /\ childSignaled
    /\ kills = 1

\* C3: in every execution that ends by end-of-stream or by a termination
\* signal, the child-termination action has run exactly once.
C3_CleanupExactlyOnce ==
    (exitCause \in {"eof", "signal"} /\ child # "none") => kills = 1

\* the tokens a sequence of pairs stands for
ExpectedPairs(ps) == [i \in 1..Len(ps) |-> <<CharName(ps[i][1]), ps[i][2]>>]

\* C4: tokenizing the line built from a frame marker and a sequence of
\* (marker, label) pairs, labels without ':', yields exactly those pairs in
\* order.
C4_RoundTrip ==
    pc = "tokenized" => (toks.st = "ok" /\ toks.toks = ExpectedPairs(pairs))

\* the tokens of a list of segments, by characters
RECURSIVE SegmentTokens(_)
SegmentTokens(segs) ==
    IF segs = <<>> THEN <<>>
    ELSE (IF CharLen(Head(segs)) >= 2
          THEN <<(<<CharName(FirstChar(Head(segs))), DropFirstChar(Head(segs))>>)>>
          ELSE <<>>) \o SegmentTokens(Tail(segs))

\* C5: for any line, each ':'-separated segment of the line without its
\* first character gives no token when its length is 0 or 1 and exactly one
\* token (first character, rest) when it is longer, in segment order.
C5_SegmentsToTokens ==
    pc = "returned" =>
        /\ toks.st = "ok"
        /\ toks.toks = SegmentTokens(SplitColon(DropFirstChar(bspwm)))

\* C6: a line of length 0 or 1 that reaches the presenter is not an error:
\* the presenter writes only the line terminator and the loop goes on.
C6_ShortLineIsNoError ==
    (started /\ bspwm = fed /\ Len(fed) <= 1 /\ res.st \notin {"skip", "ioerr"})
        => (res.st = "ok" /\ flushed = <<"\n">> /\ pc = "loop")

\* the marker table of the presenter: category, padding before and after
TableCategory(k) ==
    CASE k \in {"m", "M"} -> "monitor"
      [] k \in {"f", "F"} -> "free"
      [] k \in {"o", "O"} -> "occupied"
      [] k \in {"u", "U"} -> "urgent"
      [] k \in {"L", "T", "G"} -> "state"
TablePrefix(k) == IF k \in {"M", "F", "O", "U"} THEN <<"-">> ELSE <<" ">>
TableSuffix(k) ==
    CASE k \in {"m", "f", "o", "u"} -> <<" ", " ">>
      [] k \in {"M", "F", "O", "U"} -> <<"-", " ">>
      [] OTHER -> <<>>
TableFragment(c, t) ==
    IF t[1] \in Markers
    THEN TablePrefix(t[1]) \o Draw(c[TableCategory(t[1])], t[2]) \o TableSuffix(t[1])
    ELSE <<>>
RECURSIVE TableLine(_, _)
TableLine(c, ts) ==
    IF ts = <<>> THEN <<"\n">> ELSE TableFragment(c, Head(ts)) \o TableLine(c, Tail(ts))

\* C7: print_bspwm writes, in token order, one fragment per token as the
\* marker table gives it, then exactly one newline; 'Oo1o2:O3' without colors
\* gives ' 1o2  -3- \n'; one m/f/o/u token gives 1 + len(colored) + 2 bytes
\* before the newline.
C7_FragmentsInOrder ==
    (pc = "returned" /\ res.st = "ok") =>
        /\ toks.st = "ok"
        /\ res.out = TableLine(colors, toks.toks)
        /\ res.flushed = res.out
        /\ (bspwm = ScenarioLine /\ colors = NoColors) =>
               res.out = <<" ", "1", "o", "2", " ", " ", "-", "3", "-", " ", "\n">>
        /\ (Len(toks.toks) = 1 /\ toks.toks[1][1] \in {"m", "f", "o", "u"}) =>
               Len(res.out) - 1 =
                   1 + Len(Draw(colors[TableCategory(toks.toks[1][1])], toks.toks[1][2])) + 2

\* C7 witness: the scenario line printed without colors, two tokens
C7_Witness ==
    /\ pc = "returned"
    /\ res.st = "ok"
    /\ bspwm = ScenarioLine
    /\ colors = NoColors
    /\ Len(toks.toks) = 2

\* the markup of a colored label, and a one-token line without its padding
Markup(h, label) ==
    <<"%", "{", "F">> \o h \o <<"}">> \o label \o <<"%", "{", "F", "-", "}">>
Inner(out, k) ==
    SubSeq(out, Len(TablePrefix(k)) + 1, Len(out) - 1 - Len(TableSuffix(k)))

\* C8: a token's label is drawn in the color of its marker's own category:
\* with a hex value H as '%{F' H '}' label '%{F-}', and unchanged when the
\* color was constructed from the empty string.
C8_OwnCategoryColor ==
    (pc = "returned" /\ res.st = "ok" /\ Len(toks.toks) = 1 /\ toks.toks[1][1] \in Markers) =>
        LET k == toks.toks[1][1]
            label == toks.toks[1][2]
            color == colors[TableCategory(k)]
        IN  /\ color.some => Inner(res.out, k) = Markup(color.hex, label)
            /\ color = ColorFromStr(<<>>).color => Inner(res.out, k) = label

\* C8 witness: an 'f' token drawn with only the free color set, and only it
C8_Witness ==
    /\ pc = "returned"
    /\ res.st = "ok"
    /\ Len(toks.toks) = 1
    /\ toks.toks[1][1] = "f"
    /\ colors.free.some
    /\ \A k \in Categories \ {"free"} : ~colors[k].some

\* C9: a line fed twice in succession produces output exactly once.
C9_DedupOnce ==
    (pc = "loop" /\ runLen = 2) => runOut = 1

\* C10: a terminating execution ends with exit code 0 (end-of-input or a
\* termination signal) or with exit code 1 and a one-line diagnostic (a
\* startup failure or a propagated I/O error); nothing else is reachable.
C10_ExitCodes ==
    (pc = "exited" /\ exitCause # "killed") =>
        \/ exitCode = 0 /\ exitCause \in {"eof", "signal"}
        \/ /\ exitCode = 1
           /\ exitCause \in {"args", "spawn", "nopipe", "io"}
           /\ stderr # <<>>
           /\ stderr[Len(stderr)] \in {"usage", "io"}

\* the tokens print_bspwm writes a fragment for, and the fragments of the
\* first n of them
DrawnTokens(ts) == SelectSeq(ts, LAMBDA t : t[1] \in Markers)
RECURSIVE TableFragments(_, _, _)
TableFragments(c, ts, n) ==
    IF n = 0 \/ ts = <<>> THEN <<>>
    ELSE TableFragment(c, Head(ts)) \o TableFragments(c, Tail(ts), n - 1)

\* C11: when a write or the flush fails while a line is presented, nothing
\* of the line after the failing fragment is written, print_bspwm returns
\* the error, no further line is read, and the program exits with code 1.
C11_WriteErrorAborts ==
    res.st = "ioerr" =>
        LET drawn == DrawnTokens(Tokenize(bspwm).toks)
        IN  /\ res.nwrites <= Len(drawn)
            /\ res.out = IF res.nwrites < Len(drawn)
                         THEN TableFragments(colors, drawn, res.nwrites)
                         ELSE TableLine(colors, drawn)
            /\ pc = "exited"
            /\ exitCause = "io"
            /\ exitCode = 1
            /\ stderr # <<>> /\ stderr[Len(stderr)] = "io"
            /\ buf # bspwm

\* C11 witness: the write of the second of two fragments failed, and the
\* program has exited
C11_Witness ==
    /\ res.st = "ioerr"
    /\ res.nwrites = 1
    /\ Len(DrawnTokens(Tokenize(bspwm).toks)) = 2
    /\ pc = "exited"

KillLogged == \E i \in 1..Len(stderr) : stderr[i] = "kill"

\* C12: a failed kill is logged and changes nothing else: the handler goes
\* on to the same exit, with code 0, as after a kill that succeeded.
C12_KillFailureNotFatal ==
    kills = 1 =>
        /\ handler = "exit"
        /\ KillLogged <=> ~childSignaled
        /\ exitCause \in {"none", "signal", "eof", "io", "panic"}
        /\ exitCause = "signal" => exitCode = 0

\* C12 witness: the kill failed, was logged, and the handler exited with 0
C12_Witness ==
    /\ kills = 1
    /\ ~childSignaled
    /\ KillLogged
    /\ exitCause = "signal"
    /\ exitCode = 0

\* C13: with an invalid color value the child is never spawned, and after a
\* failed spawn or a missing stdout pipe the loop is not entered and nothing
\* is written.
C13_StartupFailsEarly ==
    /\ ~ArgsOk(argv) => (child = "none" /\ exitCause = "args" /\ exitCode = 1)
    /\ exitCause \in {"spawn", "nopipe"} =>
           (~started /\ res = NotCalled /\ flushed = <<>> /\ handler = "none" /\ exitCode = 1)

\* C13 witness: the process was started with an invalid value and has exited
C13_Witness ==
    /\ ~ArgsOk(argv)
    /\ exitCause = "args"
    /\ pc = "exited"

\* '#' followed by six hex digits
WellFormedHex(v) ==
    /\ Len(v) = 7
    /\ Head(v) = "#"
    /\ {Tail(v)[i] : i \in 1..6} \subseteq HexDigits

\* C14: Color::from_str gives 'no color' for the empty string, the value
\* itself for '#' and six hex digits, and fails on every other string.
C14_FromStrGrammar ==
    pc # "args" =>
        LET v == argv.free
        IN  /\ v = <<>> => (pc = "spawn" /\ colors.free = [some |-> FALSE, hex |-> <<>>])
            /\ WellFormedHex(v) => (pc = "spawn" /\ colors.free = [some |-> TRUE, hex |-> v])
            /\ (v # <<>> /\ ~WellFormedHex(v)) => (pc = "exited" /\ exitCause = "args")

\* C14 witness: a well-formed value was parsed into a color
C14_Witness ==
    /\ pc = "spawn"
    /\ Len(argv.free) = 7
    /\ colors.free.some

\* C15: whenever the loop is about to read the next line, the output
\* buffer is empty: a presented line has reached standard output whole, up
\* to its newline.
C15_FlushedBeforeRead ==
    pc = "loop" =>
        /\ res.pending = <<>>
        /\ res.st = "ok" => (flushed = res.out /\ res.out[Len(res.out)] = "\n")

\* C15 witness: a line with a fragment was presented and the loop reads on
C15_Witness ==
    /\ pc = "loop"
    /\ res.st = "ok"
    /\ Len(flushed) > 1

\* C16: a line read produces an output line exactly when it differs from the
\* line read immediately before it; the first line always does.
C16_OutputIffChanged ==
    (pc = "loop" /\ started /\ bspwm = fed) => (res.st = "ok" <=> runLen = 1)

\* C17: the text handed to the presenter is the content of the line read,
\* without its terminator and with nothing else removed.
C17_TextIsLineContent ==
    started => bspwm = fed

\* C18: once the child exists, a termination signal never ends the
\* supervising process without the child having been sent a signal.
C18_HandlerCoversChild ==
    (exitCause = "killed" /\ child # "none") => childSignaled

\* a line with a non-ASCII character where a marker is read: the frame
\* marker, or the first character of a segment
NonAsciiMarker(line) ==
    /\ line # <<>>
    /\ \/ line[1] \in LeadBytes
       \/ \E i \in 1..Len(SplitColon(DropFirstChar(line))) :
             LET seg == SplitColon(DropFirstChar(line))[i]
             IN  seg # <<>> /\ seg[1] \in LeadBytes

\* C19: a line or segment whose first character is not ASCII does not make
\* tokenizing fail: the presenter still completes.
C19_NonAsciiDoesNotFail ==
    (pc = "returned" /\ NonAsciiMarker(bspwm)) =>
        (toks.st = "ok" /\ res.st \in {"ok", "ioerr"})

====
